---- MODULE Spec2Model ----
(***************************************************************************)
(* Model of the subscription operator's hub controller                     *)
(* (pkg/controller/mcmhub/mcmhub_controller.go) and of its GitHub webhook  *)
(* listener (pkg/webhook/listener/github_events.go).                       *)
(*                                                                         *)
(* Three specifications share the module:                                  *)
(*   Spec     - ReconcileSubscription.Reconcile against the object store   *)
(*   MapSpec  - subscriptionMapper.Map                                     *)
(*   HookSpec - WebhookListener.handleGithubWebhook                        *)
(* Each leaves the variables of the other two unchanged.                   *)
(***************************************************************************)
EXTENDS Integers, Sequences, FiniteSets, TLC

VARIABLES
    \* ---- Reconcile ----
    obj,        \* object store: the Subscription of each identity
    pc,         \* per identity: "idle", or "fetched" between Get and Update
    inst,       \* per identity: `instance` of the running / last Reconcile
    orgst,      \* per identity: `orgst`, the status snapshot
    rout,       \* per identity: what the hub / clear routine did in that pass
    dirty,      \* per identity: the stored object changed after the Get
    res,        \* per identity: what the last finished Reconcile returned
    settled,    \* per identity: a hub pass persisted its status, nothing changed since
    \* ---- Map ----
    subStore,   \* Subscriptions seen by the mapper's List
    mapIn,      \* the last call's changed object and whether List failed
    requests,   \* the []reconcile.Request returned by the last Map
    \* ---- webhook ----
    hpc,        \* "idle", "loop", "done"
    req,        \* the HTTP request
    parsed,     \* body, signature, event, err as ParseRequest returned them
    nsubs,      \* len(subList.Items)
    idx,        \* loop index
    cur,        \* the subscription the last iteration evaluated, with what the store answered
    triggers,   \* triggers[i]: calls of updateSubscription for list item i
    calls,      \* store calls made by the handler: list, channel get, secret get
    hret        \* the handler's return value

recVars  == <<obj, pc, inst, orgst, rout, dirty, res, settled>>
mapVars  == <<subStore, mapIn, requests>>
hookVars == <<hpc, req, parsed, nsubs, idx, cur, triggers, calls, hret>>
vars     == <<recVars, mapVars, hookVars>>

-----------------------------------------------------------------------------
(***************************************************************************)
(* Bounds                                                                  *)
(***************************************************************************)
MaxTime == 2
MaxSubs == 2

-----------------------------------------------------------------------------
(***************************************************************************)
(* Reconcile: data                                                         *)
(***************************************************************************)
Ids == {"ns/a"}

SubscriptionPropagated == "Propagated"
SubscriptionFailed     == "Failed"
SubscriptionSubscribed == "Subscribed"

\* types.NamespacedName{}.String(): empty namespace, separator, empty name
localkey == "/"

\* Status.Statuses is a Go map: nil, or a map with some keys
NilStatuses    == [isnil |-> TRUE,  keys |-> {}]
Statuses(K)    == [isnil |-> FALSE, keys |-> K]

ZeroStatus ==
    [Phase |-> "", Reason |-> "", Message |-> "", LastUpdateTime |-> 0,
     Statuses |-> NilStatuses]

\* Spec.Placement: nil, or a struct with three optional selectors
NilPlacement == [isnil |-> TRUE, PlacementRef |-> FALSE, Clusters |-> FALSE,
                 ClusterSelector |-> FALSE]
Placement(r, c, s) == [isnil |-> FALSE, PlacementRef |-> r, Clusters |-> c,
                       ClusterSelector |-> s]
Placements ==
    {NilPlacement, Placement(FALSE, FALSE, FALSE), Placement(TRUE, FALSE, FALSE),
     Placement(FALSE, TRUE, FALSE), Placement(FALSE, FALSE, TRUE)}

\* What doMCMHubReconcile can do to the instance: fail with an error text, or
\* succeed, recording a per-cluster status entry or not.
HubOutcomes ==
    {[err |-> "", report |-> FALSE], [err |-> "", report |-> TRUE],
     [err |-> "e1", report |-> FALSE], [err |-> "e2", report |-> FALSE]}

\* What clearSubscriptionDpls can do: fail with an error text, or succeed.
ClearOutcomes ==
    {[err |-> "", report |-> FALSE], [err |-> "e1", report |-> FALSE]}

NoOutcome == [err |-> "", report |-> FALSE]

\* Statuses written by other writers of the status subresource (the local
\* subscriber, an earlier hub pass).
ExternalStatuses ==
    {[Phase |-> SubscriptionSubscribed, Reason |-> "", Message |-> "m",
      LastUpdateTime |-> 1, Statuses |-> Statuses({localkey})],
     [Phase |-> SubscriptionSubscribed, Reason |-> "", Message |-> "",
      LastUpdateTime |-> 0, Statuses |-> Statuses({localkey, "c1/c1"})],
     [Phase |-> SubscriptionFailed, Reason |-> "e2", Message |-> "m",
      LastUpdateTime |-> 1, Statuses |-> Statuses({"c1/c1"})],
     [Phase |-> SubscriptionPropagated, Reason |-> "", Message |-> "m",
      LastUpdateTime |-> 0, Statuses |-> Statuses({})]}

NoResult == [kind |-> "none", err |-> "", RequeueAfter |-> 0, wrote |-> "no"]

-----------------------------------------------------------------------------
(***************************************************************************)
(* Reconcile: the computation of the status                                *)
(***************************************************************************)

\* pl != nil && (pl.PlacementRef != nil || pl.Clusters != nil || pl.ClusterSelector != nil)
HubPlacement(pl) ==
    ~pl.isnil /\ (pl.PlacementRef \/ pl.Clusters \/ pl.ClusterSelector)

\* r.doMCMHubReconcile(instance): the hub propagation routine, as far as the
\* instance's status goes. A successful pass may record a per-cluster entry.
doMCMHubReconcile(st, out) ==
    IF out.err = "" /\ out.report
    THEN [st EXCEPT !.Statuses = Statuses(st.Statuses.keys \cup {"c1/c1"})]
    ELSE st

\* r.clearSubscriptionDpls(instance): deletes the generated deployables; the
\* status is left to Reconcile.
clearSubscriptionDpls(st, out) == st

\* HubStatus with a reason that is kept once set instead of overwritten
HubStatusKeepReason(st, out) ==
    LET st1 == doMCMHubReconcile(st, out)
        st2 == [st1 EXCEPT !.Phase = SubscriptionPropagated]
    IN  IF out.err # ""
        THEN [st2 EXCEPT !.Phase = SubscriptionFailed,
                         !.Reason = IF st.Reason = "" THEN out.err ELSE st.Reason]
        ELSE st2

\* The hub branch of Reconcile
HubStatus(st, out) ==
    LET st1 == doMCMHubReconcile(st, out)
        st2 == [st1 EXCEPT !.Phase = SubscriptionPropagated]
    IN  IF out.err # ""
        THEN [st2 EXCEPT !.Phase = SubscriptionFailed, !.Reason = out.err]
        ELSE st2

\* DeleteNonLocal with the key test inverted
DeleteLocal(m) ==
    IF m.isnil THEN m ELSE Statuses({k \in m.keys : k # localkey})

\* for k := range Statuses { if k != localkey { delete(Statuses, k) } }, skipped for a nil map
DeleteNonLocal(m) ==
    IF m.isnil THEN m ELSE Statuses({k \in m.keys : ~(k # localkey)})

\* LocalStatus without the reset of phase, message and reason
LocalStatusNoReset(st, out) ==
    LET st0 == clearSubscriptionDpls(st, out)
        st1 == IF out.err # ""
               THEN [st0 EXCEPT !.Phase = SubscriptionFailed, !.Reason = out.err]
               ELSE st0
    IN  [st1 EXCEPT !.Statuses = DeleteNonLocal(st1.Statuses)]

\* LocalStatus with the reset applied whatever the phase is
LocalStatusResetAlways(st, out) ==
    LET st0 == clearSubscriptionDpls(st, out)
        st1 == IF out.err # ""
               THEN [st0 EXCEPT !.Phase = SubscriptionFailed, !.Reason = out.err]
               ELSE st0
        st2 == [st1 EXCEPT !.Phase = "", !.Message = "", !.Reason = ""]
    IN  [st2 EXCEPT !.Statuses = DeleteNonLocal(st2.Statuses)]

\* The else branch of Reconcile: no longer a hub subscription
LocalStatus(st, out) ==
    LET st0 == clearSubscriptionDpls(st, out)
        st1 == IF out.err # ""
               THEN [st0 EXCEPT !.Phase = SubscriptionFailed, !.Reason = out.err]
               ELSE st0
        st2 == IF st1.Phase # SubscriptionFailed /\ st1.Phase # SubscriptionSubscribed
               THEN [st1 EXCEPT !.Phase = "", !.Message = "", !.Reason = ""]
               ELSE st1
    IN  [st2 EXCEPT !.Statuses = DeleteNonLocal(st2.Statuses)]

\* StatusChanged comparing the phases only
StatusChangedPhaseOnly(org, st) == org.Phase # st.Phase

\* StatusChanged without the comparison: the status is written on every pass
StatusChangedAlways(org, st) == TRUE

\* !reflect.DeepEqual(*orgst, instance.Status)
StatusChanged(org, st) == org # st

\* result.RequeueAfter = 1 * time.Second
OneSecond == 1

-----------------------------------------------------------------------------
(***************************************************************************)
(* Reconcile: the object store and the other writers                       *)
(***************************************************************************)
Absent == [exists |-> FALSE, placement |-> NilPlacement, status |-> ZeroStatus]

Unsettled == [on |-> FALSE, out |-> NoOutcome]

\* Any change of the stored object by somebody else: a running Reconcile's
\* copy is now stale, and the subscription is no longer "unchanged".
Touch(s, o) ==
    /\ obj' = [obj EXCEPT ![s] = o]
    /\ dirty' = [dirty EXCEPT ![s] = (pc[s] = "fetched")]
    /\ settled' = [settled EXCEPT ![s] = Unsettled]
    /\ UNCHANGED <<pc, inst, orgst, rout, res>>
    /\ UNCHANGED <<mapVars, hookVars>>

EnvCreate(s, pl) ==
    /\ ~obj[s].exists
    /\ Touch(s, [exists |-> TRUE, placement |-> pl, status |-> ZeroStatus])

EnvDelete(s) ==
    /\ obj[s].exists
    /\ Touch(s, Absent)

EnvSetPlacement(s, pl) ==
    /\ obj[s].exists
    /\ pl # obj[s].placement
    /\ Touch(s, [obj[s] EXCEPT !.placement = pl])

EnvSetStatus(s, e) ==
    /\ obj[s].exists
    /\ Touch(s, [obj[s] EXCEPT !.status =
                    [Phase |-> e.Phase, Reason |-> e.Reason, Message |-> e.Message,
                     LastUpdateTime |-> e.LastUpdateTime, Statuses |-> e.Statuses]])

-----------------------------------------------------------------------------
(***************************************************************************)
(* Reconcile: the handler, in two steps around its two store calls         *)
(***************************************************************************)

\* ReconcileGone asking for a redelivery of the vanished identity
ReconcileGoneRequeue(s) ==
    /\ pc[s] = "idle"
    /\ ~obj[s].exists
    /\ res' = [res EXCEPT ![s] = [kind |-> "gone", err |-> "", RequeueAfter |-> OneSecond,
                                  wrote |-> "no"]]
    /\ UNCHANGED <<obj, pc, inst, orgst, rout, dirty, settled>>
    /\ UNCHANGED <<mapVars, hookVars>>

\* r.Get fails with NotFound: return reconcile.Result{}, nil
ReconcileGone(s) ==
    /\ pc[s] = "idle"
    /\ ~obj[s].exists
    /\ res' = [res EXCEPT ![s] = [kind |-> "gone", err |-> "", RequeueAfter |-> 0,
                                  wrote |-> "no"]]
    /\ UNCHANGED <<obj, pc, inst, orgst, rout, dirty, settled>>
    /\ UNCHANGED <<mapVars, hookVars>>

\* ReconcileGetError with the error of the Get dropped
ReconcileGetErrorSwallowed(s) ==
    /\ pc[s] = "idle"
    /\ res' = [res EXCEPT ![s] = [kind |-> "geterr", err |-> "", RequeueAfter |-> 0,
                                  wrote |-> "no"]]
    /\ UNCHANGED <<obj, pc, inst, orgst, rout, dirty, settled>>
    /\ UNCHANGED <<mapVars, hookVars>>

\* r.Get fails with another error: return reconcile.Result{}, err
ReconcileGetError(s) ==
    /\ pc[s] = "idle"
    /\ res' = [res EXCEPT ![s] = [kind |-> "geterr", err |-> "get", RequeueAfter |-> 0,
                                  wrote |-> "no"]]
    /\ UNCHANGED <<obj, pc, inst, orgst, rout, dirty, settled>>
    /\ UNCHANGED <<mapVars, hookVars>>

\* r.Get succeeds; orgst is saved; the hub or the local branch computes
\* instance.Status
ReconcileFetch(s, out) ==
    /\ pc[s] = "idle"
    /\ obj[s].exists
    /\ out \in (IF HubPlacement(obj[s].placement) THEN HubOutcomes ELSE ClearOutcomes)
    /\ orgst' = [orgst EXCEPT ![s] = obj[s].status]
    /\ inst' = [inst EXCEPT ![s] =
                  [placement |-> obj[s].placement,
                   status |-> IF HubPlacement(obj[s].placement)
                              THEN HubStatus(obj[s].status, out)
                              ELSE LocalStatus(obj[s].status, out)]]
    /\ rout' = [rout EXCEPT ![s] = out]
    /\ dirty' = [dirty EXCEPT ![s] = FALSE]
    /\ pc' = [pc EXCEPT ![s] = "fetched"]
    /\ res' = [res EXCEPT ![s] = NoResult]
    /\ UNCHANGED <<obj, settled>>
    /\ UNCHANGED <<mapVars, hookVars>>

\* StatusUpdate that is accepted and persists nothing
StatusUpdateLost(store, s, st) == store

\* StatusUpdate writing the status to every subscription of the store
StatusUpdateAll(store, s, st) ==
    [o \in DOMAIN store |-> [store[o] EXCEPT !.status = st]]

\* r.Status().Update(ctx, instance), accepted: the status subresource of the
\* object named by the request takes the instance's status
StatusUpdate(store, s, st) ==
    [store EXCEPT ![s].status = st]

\* Result with a rejected update returned as the error of the Reconcile
ResultEscalate(kind, changed, rejected) ==
    [kind |-> kind,
     err |-> IF changed /\ rejected THEN "update" ELSE "",
     RequeueAfter |-> 0,
     wrote |-> IF ~changed THEN "no" ELSE IF rejected THEN "rejected" ELSE "ok"]

\* What Reconcile returns after the comparison: `return result, nil`, with
\* result.RequeueAfter set only when the update was issued and failed
Result(kind, changed, rejected) ==
    [kind |-> kind,
     err |-> "",
     RequeueAfter |-> IF changed /\ rejected THEN OneSecond ELSE 0,
     wrote |-> IF ~changed THEN "no" ELSE IF rejected THEN "rejected" ELSE "ok"]

\* The status comparison, r.Status().Update and the return. The store
\* rejects the update when the object changed after the Get (conflict), when
\* it is gone, or for a reason of its own (updErr).
ReconcileUpdate(s, updErr, now) ==
    /\ pc[s] = "fetched"
    /\ LET changed  == StatusChanged(orgst[s], inst[s].status)
           stamped  == [inst[s].status EXCEPT !.LastUpdateTime = now]
           rejected == updErr \/ dirty[s] \/ ~obj[s].exists
           hub      == HubPlacement(inst[s].placement)
           kind     == IF hub THEN "hub" ELSE "local"
       IN  /\ updErr => changed
           /\ ~changed => now = 1
           /\ IF ~changed
              THEN /\ res' = [res EXCEPT ![s] = Result(kind, changed, rejected)]
                   /\ settled' = [settled EXCEPT ![s] =
                                    IF hub /\ ~dirty[s] THEN @ ELSE Unsettled]
                   /\ UNCHANGED obj
                   /\ inst' = [inst EXCEPT ![s] = [placement |-> NilPlacement, status |-> ZeroStatus]]
              ELSE /\ inst' = [inst EXCEPT ![s] = [placement |-> NilPlacement, status |-> ZeroStatus]]
                   /\ IF rejected
                      THEN /\ res' = [res EXCEPT ![s] = Result(kind, changed, rejected)]
                           /\ settled' = [settled EXCEPT ![s] = Unsettled]
                           /\ UNCHANGED obj
                      ELSE /\ res' = [res EXCEPT ![s] = Result(kind, changed, rejected)]
                           /\ obj' = StatusUpdate(obj, s, stamped)
                           /\ settled' = [settled EXCEPT ![s] =
                                            IF hub THEN [on |-> TRUE, out |-> rout[s]]
                                            ELSE Unsettled]
    /\ pc' = [pc EXCEPT ![s] = "idle"]
    /\ dirty' = [dirty EXCEPT ![s] = FALSE]
    /\ rout' = [rout EXCEPT ![s] = NoOutcome]
    /\ UNCHANGED <<orgst>>
    /\ UNCHANGED <<mapVars, hookVars>>

RecInit ==
    /\ obj = [s \in Ids |-> Absent]
    /\ pc = [s \in Ids |-> "idle"]
    /\ inst = [s \in Ids |-> [placement |-> NilPlacement, status |-> ZeroStatus]]
    /\ orgst = [s \in Ids |-> ZeroStatus]
    /\ rout = [s \in Ids |-> NoOutcome]
    /\ dirty = [s \in Ids |-> FALSE]
    /\ res = [s \in Ids |-> NoResult]
    /\ settled = [s \in Ids |-> Unsettled]

RecNext ==
    \/ \E s \in Ids, pl \in Placements : EnvCreate(s, pl)
    \/ \E s \in Ids : EnvDelete(s)
    \/ \E s \in Ids, pl \in Placements : EnvSetPlacement(s, pl)
    \/ \E s \in Ids, e \in ExternalStatuses : EnvSetStatus(s, e)
    \/ \E s \in Ids : ReconcileGone(s)
    \/ \E s \in Ids : ReconcileGetError(s)
    \/ \E s \in Ids, out \in HubOutcomes : ReconcileFetch(s, out)
    \/ \E s \in Ids, updErr \in BOOLEAN, t \in 1..MaxTime : ReconcileUpdate(s, updErr, t)

-----------------------------------------------------------------------------
(***************************************************************************)
(* Strings                                                                 *)
(***************************************************************************)

\* Index of the first occurrence of the one-character string c in s, 0 if none
IndexByte(s, c) ==
    LET hits == {i \in 1..Len(s) : SubSeq(s, i, i) = c}
    IN  IF hits = {} THEN 0 ELSE CHOOSE i \in hits : \A j \in hits : i <= j

\* strings.Split(s, sep) for a one-character separator
RECURSIVE Split(_, _)
Split(s, sep) ==
    LET i == IndexByte(s, sep)
    IN  IF i = 0 THEN <<s>>
        ELSE <<SubSeq(s, 1, i - 1)>> \o Split(SubSeq(s, i + 1, Len(s)), sep)

\* strings.Contains(s, substr)
Contains(s, substr) ==
    \E i \in 0..(Len(s) - Len(substr)) : SubSeq(s, i + 1, i + Len(substr)) = substr

-----------------------------------------------------------------------------
(***************************************************************************)
(* Map: the store the mapper lists, and the mapper                         *)
(***************************************************************************)
Key(ns, name) == [Namespace |-> ns, Name |-> name]

\* The identities of the mapper's store, in the order List returns them
MapKeys == <<Key("n1", "a"), Key("n1", "b"), Key("n1", "c"), Key("n2", "b")>>

\* Values of the rolling-update-target annotation ("" when absent)
Targets == {"", "a", "b"}

\* Values of the hosting-subscription annotation ("" when absent)
Hostings == {"", "n1/c", "n1/"}

NoSub == [exists |-> FALSE, target |-> "", hosting |-> ""]

NoMapIn == [called |-> FALSE, obj |-> Key("", ""), hosting |-> "", listErr |-> FALSE]

\* List that fills the list although the call fails
ListDespiteError(ns, listErr) ==
    SelectSeq(MapKeys, LAMBDA k : k.Namespace = ns /\ subStore[k].exists)

\* mapper.List with ListOptions{Namespace: ns}: the stored Subscriptions of
\* that namespace; nothing when the call fails
List(ns, listErr) ==
    IF listErr THEN <<>>
    ELSE SelectSeq(MapKeys, LAMBDA k : k.Namespace = ns /\ subStore[k].exists)

NilKey == [isnil |-> TRUE, Namespace |-> "", Name |-> ""]

\* utils.GetHostSubscriptionFromObject: the hosting-subscription annotation
\* parsed as namespace/name; nil when absent or not of two segments
GetHostSubscriptionFromObject(hosting) ==
    IF hosting = "" THEN NilKey
    ELSE LET parsedstr == Split(hosting, "/")
         IN  IF Len(parsedstr) # 2 THEN NilKey
             ELSE [isnil |-> FALSE, Namespace |-> parsedstr[1], Name |-> parsedstr[2]]

\* A listed subscription passes both `continue` tests of the loop, ignoring the name
IsRollingSourceAnyTarget(target, name) ==
    ~(target = "")

\* A listed subscription passes both `continue` tests of the loop
IsRollingSource(target, name) ==
    /\ ~(target = "")
    /\ ~(target # name)

\* MapRequests with the changed object left out of its own sources
MapRequestsSkipSelf(key, hosting, listErr) ==
    LET self    == <<Key(key.Namespace, key.Name)>>
        items   == List(key.Namespace, listErr)
        rolling == SelectSeq(items, LAMBDA k :
                      /\ k # Key(key.Namespace, key.Name)
                      /\ IsRollingSource(subStore[k].target, key.Name))
        hdplkey == GetHostSubscriptionFromObject(hosting)
        host    == IF ~hdplkey.isnil /\ hdplkey.Name # ""
                   THEN <<Key(hdplkey.Namespace, hdplkey.Name)>>
                   ELSE <<>>
    IN  self \o rolling \o host

\* MapRequests following the hosting annotation and the rolling-update
\* targets for a second hop
MapRequestsTwoHops(key, hosting, listErr) ==
    LET self    == <<Key(key.Namespace, key.Name)>>
        items   == List(key.Namespace, listErr)
        rolling == SelectSeq(items, LAMBDA k : IsRollingSource(subStore[k].target, key.Name))
        second  == SelectSeq(items, LAMBDA k :
                      \E i \in 1..Len(rolling) :
                         IsRollingSource(subStore[k].target, rolling[i].Name))
        hdplkey == GetHostSubscriptionFromObject(hosting)
        host    == IF ~hdplkey.isnil /\ hdplkey.Name # ""
                   THEN <<Key(hdplkey.Namespace, hdplkey.Name)>>
                   ELSE <<>>
        hosthost == IF host # <<>> /\ host[1] \in DOMAIN subStore
                    THEN LET g == GetHostSubscriptionFromObject(subStore[host[1]].hosting)
                         IN  IF ~g.isnil /\ g.Name # ""
                             THEN <<Key(g.Namespace, g.Name)>> ELSE <<>>
                    ELSE <<>>
    IN  self \o rolling \o second \o host \o hosthost

\* The requests Map builds for the changed object (key, hosting annotation)
MapRequests(key, hosting, listErr) ==
    LET self    == <<Key(key.Namespace, key.Name)>>
        items   == List(key.Namespace, listErr)
        rolling == SelectSeq(items, LAMBDA k : IsRollingSource(subStore[k].target, key.Name))
        hdplkey == GetHostSubscriptionFromObject(hosting)
        host    == IF ~hdplkey.isnil /\ hdplkey.Name # ""
                   THEN <<Key(hdplkey.Namespace, hdplkey.Name)>>
                   ELSE <<>>
    IN  self \o rolling \o host

\* The store changes: a Subscription is created or its annotations are set
PutSub(k, target, hosting) ==
    /\ subStore[k] # [exists |-> TRUE, target |-> target, hosting |-> hosting]
    /\ subStore' = [subStore EXCEPT ![k] =
                      [exists |-> TRUE, target |-> target, hosting |-> hosting]]
    /\ mapIn' = NoMapIn
    /\ requests' = <<>>
    /\ UNCHANGED <<recVars, hookVars>>

DeleteSub(k) ==
    /\ subStore[k].exists
    /\ subStore' = [subStore EXCEPT ![k] = NoSub]
    /\ mapIn' = NoMapIn
    /\ requests' = <<>>
    /\ UNCHANGED <<recVars, hookVars>>

\* subscriptionMapper.Map(obj) for a changed Subscription of the store
Map(k, listErr) ==
    /\ subStore[k].exists
    /\ mapIn' = [called |-> TRUE, obj |-> k, hosting |-> subStore[k].hosting,
                 listErr |-> listErr]
    /\ requests' = MapRequests(k, subStore[k].hosting, listErr)
    /\ UNCHANGED <<subStore, recVars, hookVars>>

MapIdx == 1..Len(MapKeys)
KeySet == {MapKeys[i] : i \in MapIdx}

MapInit ==
    /\ subStore = [k \in KeySet |-> NoSub]
    /\ mapIn = NoMapIn
    /\ requests = <<>>

MapNext ==
    \/ \E k \in KeySet, tg \in Targets, h \in Hostings : PutSub(k, tg, h)
    \/ \E k \in KeySet : DeleteSub(k)
    \/ \E k \in KeySet, listErr \in BOOLEAN : Map(k, listErr)

\* Values of the hosting-subscription annotation that let hosting
\* subscriptions be hosted themselves, across namespaces
ChainHostings == {"", "n1/c", "n2/b"}

\* The mapper over a store whose subscriptions form chains
ChainNext ==
    \/ \E k \in KeySet, tg \in Targets, h \in ChainHostings : PutSub(k, tg, h)
    \/ \E k \in KeySet : DeleteSub(k)
    \/ \E k \in KeySet, listErr \in BOOLEAN : Map(k, listErr)

-----------------------------------------------------------------------------
(***************************************************************************)
(* Webhook: the request                                                    *)
(***************************************************************************)
Repo(clone, html, url, full) ==
    [CloneURL |-> clone, HTMLURL |-> html, URL |-> url, FullName |-> full]

\* The repository of an event; the getters of an event without repository
\* all return ""
SomeRepo == Repo("git://c/x.git", "http://h/x", "http://u/x", "o/r")
NoRepo   == Repo("", "", "", "")

\* Request bodies: an event as a JSON document, the same as the `payload`
\* field of a form, and bytes that are neither
Bodies ==
    {[id |-> "j1", enc |-> "json", repo |-> SomeRepo],
     [id |-> "j0", enc |-> "json", repo |-> NoRepo],
     [id |-> "f1", enc |-> "form", repo |-> SomeRepo],
     [id |-> "f0", enc |-> "form", repo |-> NoRepo],
     [id |-> "x",  enc |-> "none", repo |-> NoRepo]}

ContentTypes ==
    {"application/json", "application/x-www-form-urlencoded", "text/plain",
     "application/json; charset=utf-8"}

\* Values of the X-GitHub-Event header ("" when absent)
EventHeaders == {"push", "pull_request", "issues", ""}

\* Values of the X-Hub-Signature header: absent, malformed, or the HMAC of
\* some body under some key
NoSignature  == [present |-> FALSE, wellformed |-> FALSE, body |-> "", key |-> ""]
BadSignature == [present |-> TRUE,  wellformed |-> FALSE, body |-> "", key |-> ""]
Hmac(b, k)   == [present |-> TRUE,  wellformed |-> TRUE,  body |-> b,  key |-> k]

SignaturesFor(b) ==
    {NoSignature, BadSignature, Hmac(b, "k1"), Hmac(b, "k2"), Hmac(b, ""),
     Hmac("other", "k1")}

Requests ==
    UNION {{[ContentType |-> ct, Body |-> b, readErr |-> re, EventHeader |-> h,
             Signature |-> sg] :
               ct \in ContentTypes, re \in BOOLEAN, h \in EventHeaders,
               sg \in SignaturesFor(b.id)} : b \in Bodies}

NoRequest ==
    [ContentType |-> "", Body |-> [id |-> "", enc |-> "none", repo |-> NoRepo],
     readErr |-> FALSE, EventHeader |-> "", Signature |-> NoSignature]

\* A payload: the bytes handed to github.ParseWebHook
Payload(valid, repo) == [valid |-> valid, repo |-> repo]

\* url.ParseQuery(string(body)) followed by form.Get("payload")
ParseQuery(body) ==
    IF body.enc = "none" THEN [err |-> TRUE, payload |-> Payload(FALSE, NoRepo)]
    ELSE IF body.enc = "form" THEN [err |-> FALSE, payload |-> Payload(TRUE, body.repo)]
    ELSE [err |-> FALSE, payload |-> Payload(FALSE, NoRepo)]

\* github.ParseWebHook(github.WebHookType(r), payload): the header selects the
\* event struct, the payload is unmarshalled into it
ParseWebHook(messageType, payload) ==
    LET type == CASE messageType = "push" -> "PushEvent"
                  [] messageType = "pull_request" -> "PullRequestEvent"
                  [] messageType = "issues" -> "IssuesEvent"
                  [] OTHER -> ""
    IN  IF type = "" \/ ~payload.valid
        THEN [err |-> TRUE, type |-> "", repo |-> NoRepo]
        ELSE [err |-> FALSE, type |-> type, repo |-> payload.repo]

ParseFailed == [err |-> TRUE, body |-> "", signature |-> NoSignature,
                type |-> "", repo |-> NoRepo]

\* The content types the switch of ParseRequest accepts, without the default case
ParseRequestAnyType(r) ==
    LET direct == Payload(r.Body.enc = "json", r.Body.repo)
        event  == ParseWebHook(r.EventHeader, direct)
    IN  IF r.readErr \/ event.err THEN ParseFailed
        ELSE [err |-> FALSE, body |-> r.Body.id, signature |-> r.Signature,
              type |-> event.type, repo |-> event.repo]

\* ParseRequest returning the event even when ParseWebHook failed
ParseRequestIgnoreError(r) ==
    IF r.ContentType \notin {"application/json", "application/x-www-form-urlencoded"}
       \/ r.readErr
    THEN ParseFailed
    ELSE [err |-> FALSE, body |-> r.Body.id, signature |-> r.Signature,
          type |-> "PushEvent", repo |-> r.Body.repo]

\* WebhookListener.ParseRequest
ParseRequest(r) ==
    IF r.ContentType = "application/json"
    THEN IF r.readErr THEN ParseFailed
         ELSE LET event == ParseWebHook(r.EventHeader,
                                        Payload(r.Body.enc = "json", r.Body.repo))
              IN  IF event.err THEN ParseFailed
                  ELSE [err |-> FALSE, body |-> r.Body.id, signature |-> r.Signature,
                        type |-> event.type, repo |-> event.repo]
    ELSE IF r.ContentType = "application/x-www-form-urlencoded"
    THEN IF r.readErr THEN ParseFailed
         ELSE LET form == ParseQuery(r.Body)
              IN  IF form.err THEN ParseFailed
                  ELSE LET event == ParseWebHook(r.EventHeader, form.payload)
                       IN  IF event.err THEN ParseFailed
                           ELSE [err |-> FALSE, body |-> r.Body.id,
                                 signature |-> r.Signature,
                                 type |-> event.type, repo |-> event.repo]
    ELSE ParseFailed

-----------------------------------------------------------------------------
(***************************************************************************)
(* Webhook: what the stores answer                                         *)
(***************************************************************************)

\* Values of Subscription.Spec.Channel
ChannelRefs == {"", "noslash", "n/ch", "n/ch/x"}

ChannelTypeGitHub == "GitHub"
ChannelTypes == {"GitHub", "github", "Namespace"}

\* Values of Channel.Spec.PathName
PathNames == {"git://c/x.git", "http://h/x", "http://u/x", "http://g/o/r.git", "o/x"}

ChannelErr == [err |-> TRUE, Type |-> "", PathName |-> "", WebhookSecret |-> ""]

\* Answers of RemoteClient.Get for a Channel: an error, or the channel with
\* its type, path and webhook-secret annotation ("" when absent)
ChannelResponses ==
    {ChannelErr} \cup
    {[err |-> FALSE, Type |-> ty, PathName |-> pn, WebhookSecret |-> ws] :
        ty \in ChannelTypes, pn \in PathNames, ws \in {"", "s1"}}

SecretErr == [err |-> TRUE, data |-> ""]

\* Answers of RemoteClient.Get for a Secret: an error, or the secret with the
\* bytes of its `secret` field ("" when the field is absent)
SecretResponses ==
    {SecretErr} \cup {[err |-> FALSE, data |-> d] : d \in {"", "k1", "'k1'", "[k1]"}}

NoSecret == [err |-> FALSE, data |-> ""]

-----------------------------------------------------------------------------
(***************************************************************************)
(* Webhook: the evaluation of one subscription                             *)
(***************************************************************************)
LowerByte(c) ==
    CASE c = "G" -> "g" [] c = "H" -> "h" [] c = "N" -> "n" [] OTHER -> c

RECURSIVE ToLower(_)
ToLower(s) ==
    IF s = "" THEN "" ELSE LowerByte(SubSeq(s, 1, 1)) \o ToLower(SubSeq(s, 2, Len(s)))

\* strings.EqualFold
EqualFold(a, b) == ToLower(a) = ToLower(b)

\* EqualFold(chType, ChannelTypeGitHub), tabulated over the channel types
IsGitHub == [ty \in ChannelTypes \cup {""} |-> EqualFold(ty, ChannelTypeGitHub)]

\* yaml.Unmarshal(data, &secret) into a string: a plain or quoted scalar
\* decodes to its text, no document to "", a sequence is an error
YamlUnmarshal(data) ==
    IF data = "" THEN [err |-> FALSE, val |-> ""]
    ELSE IF SubSeq(data, 1, 1) = "[" THEN [err |-> TRUE, val |-> ""]
    ELSE IF Len(data) >= 2 /\ SubSeq(data, 1, 1) = "'" /\ SubSeq(data, Len(data), Len(data)) = "'"
    THEN [err |-> FALSE, val |-> SubSeq(data, 2, Len(data) - 1)]
    ELSE [err |-> FALSE, val |-> data]

\* YamlUnmarshal, tabulated over the secret data of the model
SecretData == {r.data : r \in SecretResponses} \cup {""}
Unmarshalled == [d \in SecretData |-> YamlUnmarshal(d)]

\* github.ValidateSignature(signature, body, key): the header is well formed
\* and is the HMAC of this body under this key
ValidateSignature(signature, body, key) ==
    signature.wellformed /\ signature.body = body /\ signature.key = key

\* validateSecret performs the Secret Get iff the annotation is set
ReadsSecret(annotation) == annotation # ""

\* validateSecret without the test for an empty secret
validateSecretNoEmptyTest(signature, annotation, secobj, body) ==
    IF annotation = "" THEN FALSE
    ELSE LET y == Unmarshalled[IF secobj.err THEN "" ELSE secobj.data]
         IN  /\ ~secobj.err
             /\ ~y.err
             /\ ValidateSignature(signature, body, y.val)

\* WebhookListener.validateSecret
validateSecret(signature, annotation, secobj, body) ==
    LET y      == IF annotation = "" THEN [err |-> FALSE, val |-> ""]
                  ELSE Unmarshalled[IF secobj.err THEN "" ELSE secobj.data]
        secret == y.val
        ret1   == IF annotation = "" THEN FALSE
                  ELSE /\ ~secobj.err
                       /\ ~y.err
                       /\ ~(secret = "")
    IN  ret1 /\ ValidateSignature(signature, body, secret)

\* The condition of the two event cases, without the full-name test
PathMatchesExact(PathName, repo) ==
    \/ PathName = repo.CloneURL
    \/ PathName = repo.HTMLURL
    \/ PathName = repo.URL

\* The condition of the two event cases
PathMatches(PathName, repo) ==
    \/ PathName = repo.CloneURL
    \/ PathName = repo.HTMLURL
    \/ PathName = repo.URL
    \/ Contains(PathName, repo.FullName)

\* PathMatches, tabulated over the paths and repositories of the model
PathMatch == [pn \in PathNames, rp \in {SomeRepo, NoRepo} |-> PathMatches(pn, rp)]

\* ChannelKey that accepts a reference of any number of segments
ChannelKeyAnySegments(Channel) ==
    [ok |-> TRUE, Namespace |-> "", Name |-> Channel]

\* The channel key of a subscription: ok is false when the loop skips it
ChannelKey(Channel) ==
    IF Channel # ""
    THEN LET strs == Split(Channel, "/")
         IN  IF Len(strs) = 2
             THEN [ok |-> TRUE, Namespace |-> strs[1], Name |-> strs[2]]
             ELSE [ok |-> FALSE, Namespace |-> "", Name |-> ""]
    ELSE [ok |-> TRUE, Namespace |-> "", Name |-> ""]

\* The signature step without the test for a present signature
SignatureSkipsUnsigned(p, chobj, secobj) ==
    ~validateSecret(p.signature, chobj.WebhookSecret, secobj, p.body)

\* if signature != "" { if !validateSecret(...) { continue } }
SignatureSkips(p, chobj, secobj) ==
    /\ p.signature.present
    /\ ~validateSecret(p.signature, chobj.WebhookSecret, secobj, p.body)

\* ChannelKey, tabulated over the channel references of the model
KeyOf == [c \in ChannelRefs |-> ChannelKey(c)]

\* One pass of the loop body with every skip ending the request
EvaluateAbortOnSkip(p, Channel, chobj, secobj) ==
    LET step == IF ~KeyOf[Channel].ok THEN "channel-ref"
                ELSE IF chobj.err THEN "channel-get"
                ELSE IF ~IsGitHub[chobj.Type] THEN "channel-type"
                ELSE IF SignatureSkips(p, chobj, secobj) THEN "signature"
                ELSE IF p.type \notin {"PullRequestEvent", "PushEvent"} THEN "event-type"
                ELSE IF ~PathMatch[chobj.PathName, p.repo] THEN "path"
                ELSE ""
    IN  [skip |-> step, update |-> step = "", next |-> IF step = "" THEN "loop" ELSE "done"]

\* One pass of the loop body without the default case of the event switch
EvaluateAnyEvent(p, Channel, chobj, secobj) ==
    LET step == IF ~KeyOf[Channel].ok THEN "channel-ref"
                ELSE IF chobj.err THEN "channel-get"
                ELSE IF ~IsGitHub[chobj.Type] THEN "channel-type"
                ELSE IF SignatureSkips(p, chobj, secobj) THEN "signature"
                ELSE IF ~PathMatch[chobj.PathName, p.repo] THEN "path"
                ELSE ""
    IN  [skip |-> step, update |-> step = "", next |-> "loop"]

\* One pass of the loop body for a subscription with this channel reference,
\* given the parsed request p and the stores' answers: where it skipped
\* ("" when it did not), whether updateSubscription was called, and where
\* the handler goes next
Evaluate(p, Channel, chobj, secobj) ==
    LET step == IF ~KeyOf[Channel].ok THEN "channel-ref"
                ELSE IF chobj.err THEN "channel-get"
                ELSE IF ~IsGitHub[chobj.Type] THEN "channel-type"
                ELSE IF SignatureSkips(p, chobj, secobj) THEN "signature"
                ELSE IF p.type \notin {"PullRequestEvent", "PushEvent"} THEN "event-type"
                ELSE IF ~PathMatch[chobj.PathName, p.repo] THEN "path"
                ELSE ""
    IN  [skip |-> step, update |-> step = "", next |-> "loop"]

\* The loop body calls RemoteClient.Get for the channel
GetsChannel(Channel) == KeyOf[Channel].ok

\* The loop body reaches validateSecret, which calls RemoteClient.Get for the secret
GetsSecret(p, Channel, chobj) ==
    /\ GetsChannel(Channel)
    /\ ~chobj.err
    /\ IsGitHub[chobj.Type]
    /\ p.signature.present
    /\ ReadsSecret(chobj.WebhookSecret)

\* What the channel Get can answer: nothing is asked for a skipped reference,
\* and no object has the empty name
ChannelAnswers(Channel) ==
    IF GetsChannel(Channel) /\ KeyOf[Channel].Name # ""
    THEN ChannelResponses ELSE {ChannelErr}

\* What the secret Get can answer, when it is called
SecretAnswers(p, Channel, chobj) ==
    IF GetsSecret(p, Channel, chobj) THEN SecretResponses ELSE {NoSecret}

NoCur == [Channel |-> "", chobj |-> ChannelErr, secobj |-> NoSecret,
          chanGet |-> FALSE, secGet |-> FALSE, skip |-> ""]

-----------------------------------------------------------------------------
(***************************************************************************)
(* Webhook: the handler                                                    *)
(***************************************************************************)

\* handleGithubWebhook up to the loop: ParseRequest, then the cluster-wide List
HookStart(r, listErr, n) ==
    /\ hpc = "idle"
    /\ req' = r
    /\ parsed' = ParseRequest(r)
    /\ LET p == ParseRequest(r)
       IN  IF p.err
           THEN /\ ~listErr /\ n = 0
                /\ hpc' = "done"
                /\ hret' = "parse-error"
                /\ UNCHANGED <<nsubs, calls>>
           ELSE /\ calls' = [list |-> calls.list + 1, listFailed |-> listErr]
                /\ IF listErr
                   THEN /\ n = 0
                        /\ hpc' = "done"
                        /\ hret' = "list-error"
                        /\ UNCHANGED nsubs
                   ELSE /\ hpc' = "loop"
                        /\ nsubs' = n
                        /\ UNCHANGED hret
    /\ UNCHANGED <<idx, cur, triggers>>
    /\ UNCHANGED <<recVars, mapVars>>

\* One iteration of the loop over subList.Items, for a subscription with
\* this channel reference and these answers of the stores
HookEval(Channel, chobj, secobj) ==
    /\ hpc = "loop"
    /\ idx < nsubs
    /\ LET e == Evaluate(parsed, Channel, chobj, secobj)
       IN  /\ cur' = [Channel |-> Channel, chobj |-> chobj, secobj |-> secobj,
                      chanGet |-> GetsChannel(Channel),
                      secGet |-> GetsSecret(parsed, Channel, chobj),
                      skip |-> e.skip]
           /\ triggers' = Append(triggers, IF e.update THEN 1 ELSE 0)
           /\ hpc' = e.next
           /\ hret' = IF e.next = "done" THEN "nil" ELSE hret
    /\ idx' = idx + 1
    /\ UNCHANGED <<req, parsed, nsubs, calls>>
    /\ UNCHANGED <<recVars, mapVars>>

\* The loop is over: return nil
HookReturn ==
    /\ hpc = "loop"
    /\ idx = nsubs
    /\ hpc' = "done"
    /\ hret' = "nil"
    /\ UNCHANGED <<req, parsed, nsubs, idx, cur, triggers, calls>>
    /\ UNCHANGED <<recVars, mapVars>>

HookInit ==
    /\ hpc = "idle"
    /\ req = NoRequest
    /\ parsed = ParseFailed
    /\ nsubs = 0
    /\ idx = 0
    /\ cur = NoCur
    /\ triggers = <<>>
    /\ calls = [list |-> 0, listFailed |-> FALSE]
    /\ hret = "none"

\* A request arrives
HandleRequest ==
    /\ hpc = "idle"
    /\ \E r \in Requests, listErr \in BOOLEAN, n \in 0..MaxSubs : HookStart(r, listErr, n)

\* The loop takes the next subscription of the list
EvaluateNext ==
    /\ hpc = "loop"
    /\ \E Channel \in ChannelRefs :
          \E chobj \in ChannelAnswers(Channel) :
             \E secobj \in SecretAnswers(parsed, Channel, chobj) :
                HookEval(Channel, chobj, secobj)

HookNext ==
    \/ HandleRequest
    \/ EvaluateNext
    \/ HookReturn

Init == RecInit /\ MapInit /\ HookInit

Next == RecNext

Spec == Init /\ [][Next]_vars

MapSpec == Init /\ [][MapNext]_vars

HookSpec == Init /\ [][HookNext]_vars

-----------------------------------------------------------------------------
(***************************************************************************)
(* Reconcile of a subscription that, once created, stays in the store.     *)
(* Its writers are Reconcile, the placement's owner, and the local         *)
(* subscriber, which reports Subscribed.                                   *)
(*                                                                         *)
(* PhaseSpec adds fairness in order to state what CAN happen as a property *)
(* of every behaviour.  Each condition is on a sub-action of PhaseNext, so *)
(* every finite behaviour of PhaseNext has a fair continuation: a state    *)
(* predicate that holds infinitely often in every fair behaviour can be    *)
(* reached from every reachable state.                                     *)
(***************************************************************************)
Phases == {"", SubscriptionPropagated, SubscriptionFailed, SubscriptionSubscribed}

\* The statuses the local subscriber writes
LocalStatuses == {e \in ExternalStatuses : e.Phase = SubscriptionSubscribed}

\* The placements and routine outcomes PhaseSpec draws from: local-only and
\* one hub placement, success and one error
PhasePlacements == {NilPlacement, Placement(FALSE, TRUE, FALSE)}
PhaseOutcomes == {out \in HubOutcomes : ~out.report /\ out.err \in {"", "e1"}}

PhaseNext ==
    \/ \E s \in Ids, pl \in PhasePlacements : EnvCreate(s, pl)
    \/ \E s \in Ids, pl \in PhasePlacements : EnvSetPlacement(s, pl)
    \/ \E s \in Ids, e \in LocalStatuses : EnvSetStatus(s, e)
    \/ \E s \in Ids : ReconcileGone(s)
    \/ \E s \in Ids : ReconcileGetError(s)
    \/ \E s \in Ids, out \in PhaseOutcomes : ReconcileFetch(s, out)
    \/ \E s \in Ids, updErr \in BOOLEAN : ReconcileUpdate(s, updErr, 1)

\* A step that stores phase Q for s
StoreStep(s, Q) ==
    /\ PhaseNext
    /\ obj[s].exists
    /\ obj[s].status.Phase # Q
    /\ obj'[s].status.Phase = Q

\* The placement of s, not being reconciled, becomes a hub placement
Promote(s) ==
    /\ pc[s] = "idle"
    /\ \E pl \in PhasePlacements : HubPlacement(pl) /\ EnvSetPlacement(s, pl)

\* The placement of s, not being reconciled and reporting Propagated, is removed
Demote(s) ==
    /\ pc[s] = "idle"
    /\ obj[s].status.Phase = SubscriptionPropagated
    /\ EnvSetPlacement(s, NilPlacement)

\* A Reconcile of s in hub mode whose hub routine succeeds
FetchHubOk(s) ==
    /\ HubPlacement(obj[s].placement)
    /\ \E out \in PhaseOutcomes : out.err = "" /\ ReconcileFetch(s, out)

\* A Reconcile of s whose hub or clear routine fails
FetchFail(s) ==
    \E out \in PhaseOutcomes : out.err # "" /\ ReconcileFetch(s, out)

\* A Reconcile of s in local mode that computes the empty phase
FetchReset(s) ==
    /\ ~HubPlacement(obj[s].placement)
    /\ \E out \in PhaseOutcomes : ReconcileFetch(s, out) /\ inst'[s].status.Phase = ""

PhaseFairness ==
    \A s \in Ids :
        /\ WF_vars(\E pl \in PhasePlacements : EnvCreate(s, pl))
        /\ WF_vars(\E updErr \in BOOLEAN : ReconcileUpdate(s, updErr, 1))
        /\ \A Q \in Phases : SF_vars(StoreStep(s, Q))
        /\ SF_vars(Promote(s))
        /\ SF_vars(Demote(s))
        /\ SF_vars(FetchHubOk(s))
        /\ SF_vars(FetchFail(s))
        /\ SF_vars(FetchReset(s))

PhaseSpec == Init /\ [][PhaseNext]_vars /\ PhaseFairness

ChainSpec == Init /\ [][ChainNext]_vars

-----------------------------------------------------------------------------
(***************************************************************************)
(* Reconcile with routines whose outcome is a function of the subscription *)
(* (re-invocation is idempotent), redelivered fairly, against a store that *)
(* does not refuse a fresh write for ever.                                 *)
(***************************************************************************)
ConvergePlacements ==
    {NilPlacement, Placement(FALSE, TRUE, FALSE), Placement(FALSE, FALSE, TRUE)}

\* The outcome of the hub routine (of the clear routine for a local-only
\* subscription) for a subscription with this placement
RoutineOutcome(pl) ==
    IF pl.isnil THEN NoOutcome
    ELSE IF pl.ClusterSelector THEN [err |-> "e1", report |-> FALSE]
    ELSE IF pl.Clusters THEN [err |-> "", report |-> TRUE]
    ELSE NoOutcome

\* One delivery of the request for s starts
Deliver(s) == ReconcileFetch(s, RoutineOutcome(obj[s].placement))

\* The Reconcile of s reaches its return
Complete(s) == \E updErr \in BOOLEAN, t \in 1..MaxTime : ReconcileUpdate(s, updErr, t)

\* The Reconcile of s reaches its return and the store had no reason of its
\* own to refuse the update
CompleteUnrefused(s) == \E t \in 1..MaxTime : ReconcileUpdate(s, FALSE, t)

ConvergeNext ==
    \/ \E s \in Ids, pl \in ConvergePlacements : EnvCreate(s, pl)
    \/ \E s \in Ids : EnvDelete(s)
    \/ \E s \in Ids, pl \in ConvergePlacements : EnvSetPlacement(s, pl)
    \/ \E s \in Ids, e \in ExternalStatuses : EnvSetStatus(s, e)
    \/ \E s \in Ids : ReconcileGone(s)
    \/ \E s \in Ids : ReconcileGetError(s)
    \/ \E s \in Ids : Deliver(s)
    \/ \E s \in Ids : Complete(s)

ConvergeFairness ==
    \A s \in Ids :
        /\ WF_vars(Deliver(s))
        /\ WF_vars(Complete(s))
        /\ SF_vars(CompleteUnrefused(s))

ConvergeSpec == Init /\ [][ConvergeNext]_vars /\ ConvergeFairness

-----------------------------------------------------------------------------
(***************************************************************************)
(* Reconciles of two identities, interleaved at their store calls; a       *)
(* subscription, once created, stays in the store                          *)
(***************************************************************************)
FrameIds == {"ns/a", "ns/b"}

\* The status the local subscriber writes in FrameSpec
FrameStatuses == {e \in LocalStatuses : e.Message = ""}

FrameInit ==
    /\ obj = [s \in FrameIds |-> Absent]
    /\ pc = [s \in FrameIds |-> "idle"]
    /\ inst = [s \in FrameIds |-> [placement |-> NilPlacement, status |-> ZeroStatus]]
    /\ orgst = [s \in FrameIds |-> ZeroStatus]
    /\ rout = [s \in FrameIds |-> NoOutcome]
    /\ dirty = [s \in FrameIds |-> FALSE]
    /\ res = [s \in FrameIds |-> NoResult]
    /\ settled = [s \in FrameIds |-> Unsettled]
    /\ MapInit
    /\ HookInit

FrameNext ==
    \/ \E s \in FrameIds, pl \in PhasePlacements : EnvCreate(s, pl)
    \/ \E s \in FrameIds, pl \in PhasePlacements : EnvSetPlacement(s, pl)
    \/ \E s \in FrameIds, e \in FrameStatuses : EnvSetStatus(s, e)
    \/ \E s \in FrameIds : ReconcileGone(s)
    \/ \E s \in FrameIds, out \in PhaseOutcomes : ReconcileFetch(s, out)
    \/ \E s \in FrameIds, updErr \in BOOLEAN : ReconcileUpdate(s, updErr, 1)

FrameSpec == FrameInit /\ [][FrameNext]_vars

-----------------------------------------------------------------------------
(***************************************************************************)
(* Properties of Reconcile                                                 *)
(***************************************************************************)

\* The step in which the Reconcile of s returns after its status comparison
Returns(s) == pc[s] = "fetched" /\ pc'[s] = "idle"

OnlyLocal(st) == st.Statuses.keys \subseteq {localkey}

\* C1: for a subscription whose placement has a cluster list, a cluster
\* selector or a placement reference, the status computed by one Reconcile
\* has phase Propagated when the hub routine succeeded, and phase Failed with
\* reason equal to this pass's error text (whatever the reason was before)
\* when it failed.
C1_HubPhase ==
    \A s \in Ids :
        (/\ pc[s] = "fetched"
         /\ ~inst[s].placement.isnil
         /\ \/ inst[s].placement.PlacementRef
            \/ inst[s].placement.Clusters
            \/ inst[s].placement.ClusterSelector)
        => /\ rout[s].err = "" => inst[s].status.Phase = "Propagated"
           /\ rout[s].err # "" => /\ inst[s].status.Phase = "Failed"
                                  /\ inst[s].status.Reason = rout[s].err

\* A hub pass failed with "e1" on a subscription whose earlier reason was "e2"
C1_Witness ==
    \E s \in Ids :
        /\ pc[s] = "fetched"
        /\ inst[s].placement.ClusterSelector
        /\ rout[s].err = "e1"
        /\ orgst[s].Reason = "e2"
        /\ inst[s].status.Phase = "Failed"
        /\ inst[s].status.Reason = "e1"

\* C2: once a Reconcile of a hub-mode subscription has persisted its status,
\* and while nobody changes the subscription and the hub routine's outcome
\* stays the same, every further Reconcile returns without a status write.
C2_Idempotent ==
    [][\A s \in Ids :
          (Returns(s) /\ settled[s].on /\ settled[s].out = rout[s])
          => res'[s].wrote = "no"]_vars

\* A second pass over a settled hub subscription has returned without a write
C2_Witness ==
    \E s \in Ids :
        /\ pc[s] = "idle"
        /\ settled[s].on
        /\ res[s].kind = "hub"
        /\ res[s].wrote = "no"
        /\ obj[s].exists
        /\ obj[s].status.LastUpdateTime > 0
        /\ obj[s].status.Phase = "Propagated"

\* C3 as stated: when the Reconcile of a local-only subscription returns, the
\* stored status holds no per-cluster entry but the local one.
C3_StoredOnlyLocal ==
    [][\A s \in Ids :
          (Returns(s) /\ ~HubPlacement(inst[s].placement))
          => OnlyLocal(obj'[s].status)]_vars

\* C3, amended: the status computed by the Reconcile of a local-only
\* subscription holds no per-cluster entry but the local one, whether or not
\* the clear routine succeeded, and so does the stored status whenever the
\* store accepts the status write of that pass.
C3_Demotion ==
    [][\A s \in Ids :
          (Returns(s) /\ (inst[s].placement.isnil \/
                            (/\ ~inst[s].placement.PlacementRef
                             /\ ~inst[s].placement.Clusters
                             /\ ~inst[s].placement.ClusterSelector)))
          => /\ OnlyLocal(inst[s].status)
             /\ res'[s].wrote = "ok" => OnlyLocal(obj'[s].status)]_vars

\* A local-only pass whose clear routine failed has persisted a status
\* stripped of the per-cluster entry the snapshot held
C3_Witness ==
    \E s \in Ids :
        /\ pc[s] = "idle"
        /\ res[s].kind = "local"
        /\ res[s].wrote = "ok"
        /\ "c1/c1" \in orgst[s].Statuses.keys
        /\ obj[s].exists
        /\ obj[s].status.Phase = "Failed"
        /\ obj[s].status.Reason = "e1"
        /\ obj[s].status.Statuses = Statuses({localkey})

\* C11: when the store rejects the status write of a Reconcile (a conflict
\* with another writer, or any other refusal), that Reconcile returns no
\* error and asks for redelivery after exactly one second, and the stored
\* subscription, its phase included, is what it was before the write.
C11_Conflict ==
    [][\A s \in Ids :
          (Returns(s) /\ res'[s].wrote = "rejected")
          => /\ res'[s].err = ""
             /\ res'[s].RequeueAfter = 1
             /\ obj'[s] = obj[s]
             /\ obj'[s].status.Phase = obj[s].status.Phase]_vars

\* A hub pass computed Propagated while the local subscriber wrote Subscribed
\* in between: the write was rejected and the stored phase is Subscribed
C11_Witness ==
    \E s \in Ids :
        /\ pc[s] = "idle"
        /\ res[s].kind = "hub"
        /\ res[s].wrote = "rejected"
        /\ res[s].RequeueAfter = 1
        /\ res[s].err = ""
        /\ obj[s].exists
        /\ obj[s].status.Phase = "Subscribed"

\* C12: a Reconcile returns an error exactly when its Get failed with an
\* error other than not-found, and then it writes nothing and asks for no
\* delay; a failure of the hub routine or of the clear routine ends up in the
\* computed status (Failed, reason = error text) and the Reconcile returns
\* no error.
C12_Errors ==
    [][\A s \in Ids :
          /\ res'[s].err # "" <=> res'[s].kind = "geterr"
          /\ (res'[s].kind = "geterr" /\ res'[s] # res[s])
             => /\ obj' = obj
                /\ res'[s].RequeueAfter = 0
                /\ res'[s].wrote = "no"
          /\ (Returns(s) /\ rout[s].err # "")
             => /\ res'[s].err = ""
                /\ inst[s].status.Phase = "Failed"
                /\ inst[s].status.Reason = rout[s].err]_vars

\* A local-only pass whose clear routine failed returned without error and
\* left Failed / e1 in the stored status
C12_Witness ==
    \E s \in Ids :
        /\ pc[s] = "idle"
        /\ res[s].kind = "local"
        /\ res[s].err = ""
        /\ res[s].wrote = "ok"
        /\ orgst[s].Phase # "Failed"
        /\ obj[s].exists
        /\ obj[s].status.Phase = "Failed"
        /\ obj[s].status.Reason = "e1"

\* C13: the Reconcile of an identity whose subscription is not in the store
\* returns success with an empty result; it does not reach the hub or the
\* clear routine, writes nothing and asks for no redelivery.
C13_Gone ==
    [][\A s \in Ids :
          /\ (~obj[s].exists /\ pc[s] = "idle")
             => /\ pc'[s] = "idle"
                /\ rout'[s] = rout[s]
                /\ inst'[s] = inst[s]
          /\ (res'[s].kind = "gone" /\ res'[s] # res[s])
             => /\ ~obj[s].exists
                /\ obj' = obj
                /\ res'[s].err = ""
                /\ res'[s].RequeueAfter = 0
                /\ res'[s].wrote = "no"]_vars

\* A subscription that had been reconciled was deleted, and the Reconcile of
\* its identity returned the empty result
C13_Witness ==
    \E s \in Ids :
        /\ pc[s] = "idle"
        /\ ~obj[s].exists
        /\ res[s].kind = "gone"
        /\ res[s].RequeueAfter = 0
        /\ orgst[s].Phase = "Propagated"

\* C17: in hub and in local mode alike, a Reconcile issues the status write
\* iff the status it computed differs in any field from the snapshot taken
\* after the Get; the computation leaves the last-update time alone, and the
\* stored last-update time changes only in a step that issues the write.
C17_WriteGuard ==
    [][\A s \in Ids :
          /\ pc'[s] = "fetched"
             => inst'[s].status.LastUpdateTime = orgst'[s].LastUpdateTime
          /\ Returns(s)
             => /\ res'[s].wrote \in {"ok", "rejected"} <=> orgst[s] # inst[s].status
                /\ res'[s].wrote = "no" => obj'[s] = obj[s]
                /\ obj'[s].status.LastUpdateTime # obj[s].status.LastUpdateTime
                   => res'[s].wrote = "ok"]_vars

\* A local-only pass found a per-cluster entry to strip, wrote the status and
\* moved the last-update time from 1 to 2
C17_Witness ==
    \E s \in Ids :
        /\ pc[s] = "idle"
        /\ res[s].kind = "local"
        /\ res[s].wrote = "ok"
        /\ orgst[s].LastUpdateTime = 1
        /\ orgst[s].Phase = "Failed"
        /\ obj[s].exists
        /\ obj[s].status.Phase = "Failed"
        /\ obj[s].status.LastUpdateTime = 2

\* C18: in the Reconcile of a local-only subscription, when the clear
\* routine succeeds, phase, message and reason are all empty if the fetched
\* phase is neither Failed nor Subscribed, and are the fetched ones if it is
\* Failed or Subscribed; when the clear routine fails, the phase is Failed
\* and the reason is the error text.
C18_LocalReset ==
    \A s \in Ids :
        (/\ pc[s] = "fetched"
         /\ (inst[s].placement.isnil \/
               (/\ ~inst[s].placement.PlacementRef
                /\ ~inst[s].placement.Clusters
                /\ ~inst[s].placement.ClusterSelector)))
        => /\ (rout[s].err = "" /\ orgst[s].Phase \notin {"Failed", "Subscribed"})
              => /\ inst[s].status.Phase = ""
                 /\ inst[s].status.Message = ""
                 /\ inst[s].status.Reason = ""
           /\ (rout[s].err = "" /\ orgst[s].Phase \in {"Failed", "Subscribed"})
              => /\ inst[s].status.Phase = orgst[s].Phase
                 /\ inst[s].status.Message = orgst[s].Message
                 /\ inst[s].status.Reason = orgst[s].Reason
           /\ rout[s].err # ""
              => /\ inst[s].status.Phase = "Failed"
                 /\ inst[s].status.Reason = rout[s].err

\* A demoted subscription still reporting Propagated with a message was
\* reset to the empty phase and message
C18_Witness ==
    \E s \in Ids :
        /\ pc[s] = "fetched"
        /\ inst[s].placement.isnil
        /\ rout[s].err = ""
        /\ orgst[s].Phase = "Propagated"
        /\ orgst[s].Message = "m"
        /\ inst[s].status.Phase = ""
        /\ inst[s].status.Message = ""

\* C19: while the subscription exists, each of the phases empty,
\* Propagated, Failed and Subscribed can be reached from every state, hence
\* from every other phase, by further reconciles together with placement
\* changes, outcomes of the hub and clear routines and the local
\* subscriber's reports; no phase is one the subscription can never leave.
C19_PhaseMachine ==
    \A s \in Ids : \A Q \in Phases :
        []<>(obj[s].exists /\ obj[s].status.Phase = Q)

\* A subscription that reported Subscribed, then Propagated under a hub
\* placement, was demoted and reconciled to the empty phase
C19_Witness ==
    \E s \in Ids :
        /\ pc[s] = "idle"
        /\ res[s].kind = "local"
        /\ res[s].wrote = "ok"
        /\ orgst[s].Phase = "Propagated"
        /\ orgst[s].Statuses = Statuses({localkey, "c1/c1"})
        /\ obj[s].exists
        /\ obj[s].status.Phase = ""

\* A step of the Reconcile of s: its Get, or its return
ReconcileStep(s) == pc'[s] # pc[s] \/ res'[s] # res[s]

\* C20: a step of Reconcile(s) changes nothing in the store but the status of
\* the subscription s names: the rest of that subscription stays as it is,
\* and so does every other subscription, status included; a Reconcile of
\* another identity that is between its Get and its Update is not disturbed.
C20_Frame ==
    [][\A s \in FrameIds :
          ReconcileStep(s)
          => /\ obj'[s].exists = obj[s].exists
             /\ obj'[s].placement = obj[s].placement
             /\ \A o \in FrameIds \ {s} :
                   /\ obj'[o] = obj[o]
                   /\ dirty'[o] = dirty[o]
                   /\ inst'[o] = inst[o]
                   /\ orgst'[o] = orgst[o]]_vars

\* The Reconcile of ns/a has stored Propagated while the Reconcile of ns/b,
\* which computed Failed over a stored Subscribed, is still before its Update
\* and has not been made stale
C20_Witness ==
    /\ pc["ns/a"] = "idle"
    /\ res["ns/a"].wrote = "ok"
    /\ obj["ns/a"].status.Phase = "Propagated"
    /\ pc["ns/b"] = "fetched"
    /\ ~dirty["ns/b"]
    /\ inst["ns/b"].status.Phase = "Failed"
    /\ obj["ns/b"].exists
    /\ obj["ns/b"].status.Phase = "Subscribed"

\* A step in which somebody other than the Reconcile of s writes the stored
\* subscription s: the object changes, or the copy a running Reconcile holds
\* becomes stale
Disturbs(s) == ~ReconcileStep(s) /\ (obj'[s] # obj[s] \/ dirty'[s] # dirty[s])

\* C22: when another writer changed the subscription between the Get and
\* the status write of a Reconcile, that write is not accepted and the
\* stored object stays as the other writer left it; and if from some point
\* on no other writer changes the subscription, then from some point on
\* every Reconcile computes exactly the stored status and issues no write.
C22_Convergence ==
    /\ [][\A s \in Ids :
             (Returns(s) /\ dirty[s])
             => /\ obj'[s] = obj[s]
                /\ res'[s].wrote # "ok"]_vars
    /\ \A s \in Ids :
          <>[][~Disturbs(s)]_vars
          => /\ <>[][Returns(s) => res'[s].wrote = "no"]_vars
             /\ <>[](pc[s] = "fetched" => inst[s].status = obj[s].status)

\* After a write of Failed / e1 was accepted at time 2, a further Reconcile
\* of the undisturbed subscription computed exactly the stored status
C22_Witness ==
    \E s \in Ids :
        /\ pc[s] = "fetched"
        /\ ~dirty[s]
        /\ obj[s].exists
        /\ obj[s].status.Phase = "Failed"
        /\ obj[s].status.Reason = "e1"
        /\ obj[s].status.LastUpdateTime = 2
        /\ inst[s].status = obj[s].status

\* C23: whenever the Reconcile of a hub-mode subscription has computed the
\* phase Propagated, the reason of that status is empty, also when an
\* earlier pass had failed and left its error text there.
C23_NoStaleReason ==
    \A s \in Ids :
        (/\ pc[s] = "fetched"
         /\ HubPlacement(inst[s].placement)
         /\ inst[s].status.Phase = "Propagated")
        => inst[s].status.Reason = ""

-----------------------------------------------------------------------------
(***************************************************************************)
(* Properties of Map                                                       *)
(***************************************************************************)
Requested == {requests[i] : i \in 1..Len(requests)}

\* The subscriptions of A's namespace whose rolling-update-target annotation
\* is set and names A
SourcesOf(A) ==
    {k \in KeySet : /\ subStore[k].exists
                    /\ k.Namespace = A.Namespace
                    /\ subStore[k].target # ""
                    /\ subStore[k].target = A.Name}

\* The subscription a hosting-subscription annotation "namespace/name" names
HostOf(hosting) ==
    {k \in KeySet : k.Name # "" /\ hosting = k.Namespace \o "/" \o k.Name}

\* C4: when the listing succeeds, Map(A) returns A itself, the subscriptions
\* of A's namespace whose rolling-update-target annotation is non-empty and
\* equals A's name, and the subscription A's hosting-subscription annotation
\* names, and nothing else: no subscription of another namespace and none
\* targeting another name comes in as a rolling-update source.
C4_FanOut ==
    (mapIn.called /\ ~mapIn.listErr)
    => /\ Requested = {mapIn.obj} \cup SourcesOf(mapIn.obj) \cup HostOf(mapIn.hosting)
       /\ \A k \in Requested \ ({mapIn.obj} \cup HostOf(mapIn.hosting)) :
             /\ k.Namespace = mapIn.obj.Namespace
             /\ subStore[k].target = mapIn.obj.Name

\* A = n1/a hosted by n1/c, B = n1/b rolling to a; n1/c rolls to b and n2/b
\* rolls to a in another namespace: Map(A) returned A, B and the host only
C4_Witness ==
    /\ mapIn.called /\ ~mapIn.listErr
    /\ mapIn.obj = Key("n1", "a")
    /\ mapIn.hosting = "n1/c"
    /\ subStore[Key("n1", "b")].target = "a"
    /\ subStore[Key("n1", "c")].target = "b"
    /\ subStore[Key("n2", "b")].target = "a"
    /\ requests = <<Key("n1", "a"), Key("n1", "b"), Key("n1", "c")>>

\* C14: when the listing fails, Map(A) still returns requests: A itself
\* first, then the subscription A's hosting-subscription annotation names if
\* it names one, and nothing else; no subscription comes in as a
\* rolling-update source.
C14_ListFailure ==
    (mapIn.called /\ mapIn.listErr)
    => /\ Len(requests) >= 1
       /\ requests[1] = mapIn.obj
       /\ Requested = {mapIn.obj} \cup HostOf(mapIn.hosting)
       /\ \A i \in 2..Len(requests) : requests[i] \in HostOf(mapIn.hosting)

\* A = n1/a is hosted by n1/c and n1/b rolls to a; the listing failed and
\* Map(A) returned A and the host, without n1/b
C14_Witness ==
    /\ mapIn.called /\ mapIn.listErr
    /\ mapIn.obj = Key("n1", "a")
    /\ mapIn.hosting = "n1/c"
    /\ subStore[Key("n1", "b")].exists
    /\ subStore[Key("n1", "b")].target = "a"
    /\ requests = <<Key("n1", "a"), Key("n1", "c")>>

\* The subscriptions Map(A) is to return: A, its rolling-update sources and
\* its hosting subscription
OneHop == {mapIn.obj} \cup SourcesOf(mapIn.obj) \cup HostOf(mapIn.hosting)

\* The rolling-update sources of the rolling-update sources of A
SecondSources == UNION {SourcesOf(b) : b \in SourcesOf(mapIn.obj)}

\* The hosting subscriptions of A's hosting subscription
SecondHosts ==
    UNION {HostOf(subStore[h].hosting) : h \in {k \in HostOf(mapIn.hosting) : subStore[k].exists}}

\* C21: Map(A) follows the rolling-update and hosting relations for one hop:
\* a subscription that only targets a rolling-update source of A, or that
\* only hosts A's hosting subscription, is not in the result.
C21_OneHop ==
    mapIn.called
    => \A k \in (SecondSources \cup SecondHosts) \ OneHop : k \notin Requested

\* B = n1/b rolls to A = n1/a and C = n1/c rolls to b; A is hosted by n2/b,
\* which is hosted by C: Map(A) returned A, B and n2/b, without C
C21_Witness ==
    /\ mapIn.called /\ ~mapIn.listErr
    /\ mapIn.obj = Key("n1", "a")
    /\ mapIn.hosting = "n2/b"
    /\ subStore[Key("n1", "b")].target = "a"
    /\ subStore[Key("n1", "c")].target = "b"
    /\ subStore[Key("n2", "b")].hosting = "n1/c"
    /\ Key("n1", "c") \in SecondSources
    /\ Key("n1", "c") \in SecondHosts
    /\ requests = <<Key("n1", "a"), Key("n1", "b"), Key("n2", "b")>>

\* How often identity k occurs in the requests Map returned
Occurrences(k) == Cardinality({i \in 1..Len(requests) : requests[i] = k})

\* C24 as stated: no identity occurs twice in the requests Map returns.
C24_NoDuplicates ==
    mapIn.called
    => \A i, j \in 1..Len(requests) : requests[i] = requests[j] => i = j

\* C24, amended: Map(A) returns one request for A itself, one more for every
\* listed rolling-update source of A (A included, when its own annotation
\* names itself), and one more for A's hosting subscription, whether or not
\* that subscription was already requested; as a set these are A, its
\* sources and its host.
C24_Occurrences ==
    mapIn.called
    => \A k \in KeySet :
          Occurrences(k) =
              (IF k = mapIn.obj THEN 1 ELSE 0)
              + (IF ~mapIn.listErr /\ k \in SourcesOf(mapIn.obj) THEN 1 ELSE 0)
              + (IF k \in HostOf(mapIn.hosting) THEN 1 ELSE 0)

\* A = n1/a names itself as rolling-update target and is hosted by n1/c,
\* which also rolls to a: Map(A) returned A twice and n1/c twice
C24_Witness ==
    /\ mapIn.called /\ ~mapIn.listErr
    /\ mapIn.obj = Key("n1", "a")
    /\ subStore[Key("n1", "a")].target = "a"
    /\ mapIn.hosting = "n1/c"
    /\ subStore[Key("n1", "c")].target = "a"
    /\ ~subStore[Key("n1", "b")].exists
    /\ requests = <<Key("n1", "a"), Key("n1", "a"), Key("n1", "c"), Key("n1", "c")>>

-----------------------------------------------------------------------------
(***************************************************************************)
(* Properties of the webhook handler.  `cur` is the subscription the last  *)
(* iteration evaluated, item idx of the list; a property of it that holds  *)
(* in every state holds of every subscription of every list.               *)
(***************************************************************************)
Evaluated == idx >= 1
Triggered == triggers[idx] = 1

\* The channel reference has two segments and the Channel was fetched
CurChannelFetched == cur.Channel = "n/ch" /\ ~cur.chobj.err

CurGitHub == cur.chobj.Type \in {"GitHub", "github"}

\* The channel names a Secret that was fetched and whose `secret` field
\* decodes to the non-empty key k1, and the signature is the HMAC of the
\* request body under k1
CurSignatureValid ==
    /\ cur.chobj.WebhookSecret # ""
    /\ ~cur.secobj.err
    /\ cur.secobj.data \in {"k1", "'k1'"}
    /\ parsed.signature = Hmac(parsed.body, "k1")

CurEventHandled == parsed.type \in {"PushEvent", "PullRequestEvent"}

CurPathMatches ==
    \/ cur.chobj.PathName = parsed.repo.CloneURL
    \/ cur.chobj.PathName = parsed.repo.HTMLURL
    \/ cur.chobj.PathName = parsed.repo.URL
    \/ \E i \in 1..(Len(cur.chobj.PathName) + 1) :
          \E j \in (i - 1)..Len(cur.chobj.PathName) :
             SubSeq(cur.chobj.PathName, i, j) = parsed.repo.FullName

\* C5: on a request that carries a signature, a subscription is triggered
\* only if its channel's webhook-secret annotation resolves to a Secret whose
\* `secret` field decodes to a non-empty key and the signature is the HMAC of
\* the body under that key; with such a signature every otherwise matching
\* subscription is triggered exactly once, and with any other signature no
\* subscription is triggered.
C5_Signed ==
    (Evaluated /\ parsed.signature.present)
    => /\ Triggered => CurSignatureValid
       /\ (/\ CurChannelFetched /\ CurGitHub /\ CurEventHandled /\ CurPathMatches
           /\ CurSignatureValid) => Triggered
       /\ (\A k \in {"k1", "k2", ""} : parsed.signature # Hmac(parsed.body, k))
          => \A i \in 1..Len(triggers) : triggers[i] = 0
       /\ \A i \in 1..Len(triggers) : triggers[i] \in {0, 1}

\* A signed push was delivered to both subscriptions of the list; the last
\* one's secret is stored as a quoted scalar
C5_Witness ==
    /\ hpc = "done" /\ hret = "nil"
    /\ parsed.signature = Hmac(parsed.body, "k1")
    /\ cur.secobj.data = "'k1'"
    /\ triggers = <<1, 1>>

C7_ContentType ==
    (/\ hpc # "idle"
     /\ req.ContentType # "application/json"
     /\ req.ContentType # "application/x-www-form-urlencoded")
    => /\ hpc = "done"
       /\ hret = "parse-error"
       /\ calls.list = 0
       /\ ~cur.chanGet /\ ~cur.secGet
       /\ idx = 0
       /\ triggers = <<>>

\* A text/plain request with a readable JSON push body was rejected
C7_Witness ==
    /\ hpc = "done"
    /\ req.ContentType = "text/plain"
    /\ req.Body.enc = "json"
    /\ req.EventHeader = "push"
    /\ ~req.readErr
    /\ hret = "parse-error"
    /\ calls.list = 0

\* C8: for a Push or PullRequest event and a subscription that passed the
\* channel-type and signature steps, the subscription is triggered iff the
\* channel's path equals the repository's clone, HTML or API URL or contains
\* its full name; the rule does not depend on which of the two events it is.
C8_PathMatch ==
    (/\ Evaluated
     /\ CurEventHandled
     /\ CurChannelFetched /\ CurGitHub
     /\ parsed.signature.present => CurSignatureValid)
    => (Triggered <=> CurPathMatches)

\* A pull request to o/r triggered a subscription whose channel path only
\* contains the full name
C8_Witness ==
    /\ Evaluated
    /\ parsed.type = "PullRequestEvent"
    /\ parsed.repo.FullName = "o/r"
    /\ cur.chobj.PathName = "http://g/o/r.git"
    /\ Triggered

\* C9: once the request is parsed and the list obtained, the handler ends
\* only after every subscription of the list was evaluated, and then returns
\* success; whether a subscription is triggered depends on that subscription
\* alone, whatever happened to the ones before it.
C9_Isolation ==
    /\ (hpc = "done" /\ calls.list = 1 /\ ~calls.listFailed)
       => /\ hret = "nil"
          /\ idx = nsubs
          /\ Len(triggers) = nsubs
    /\ hpc = "loop" => idx <= nsubs /\ Len(triggers) = idx
    /\ Evaluated
       => (Triggered <=> (/\ CurChannelFetched /\ CurGitHub
                          /\ parsed.signature.present => CurSignatureValid
                          /\ CurEventHandled /\ CurPathMatches))

\* The first subscription of the list was skipped, the second one was
\* triggered, and the handler returned success
C9_Witness ==
    /\ hpc = "done" /\ hret = "nil"
    /\ nsubs = 2
    /\ triggers = <<0, 1>>

\* The payload of a request cannot be parsed into an event
Unparsable(r) ==
    \/ r.EventHeader \notin {"push", "pull_request", "issues"}
    \/ r.ContentType = "application/json" /\ r.Body.enc # "json"
    \/ r.ContentType = "application/x-www-form-urlencoded" /\ r.Body.enc # "form"

\* C10: when the payload cannot be parsed into an event, or the cluster-wide
\* list fails, the handler returns an error and triggers no subscription.
C10_Fatal ==
    hpc # "idle"
    => /\ Unparsable(req)
          => /\ hpc = "done" /\ hret = "parse-error"
             /\ idx = 0 /\ triggers = <<>>
       /\ calls.listFailed
          => /\ hpc = "done" /\ hret = "list-error"
             /\ idx = 0 /\ triggers = <<>>
       /\ hret \in {"parse-error", "list-error"} => triggers = <<>>

\* A well-formed push was parsed, and the list call failed
C10_Witness ==
    /\ hpc = "done"
    /\ ~Unparsable(req)
    /\ calls.listFailed
    /\ hret = "list-error"

\* C15: for a parsed event that is neither a push nor a pull request, no
\* subscription of the list is triggered, whatever its channel, and the
\* handler, having obtained the list, returns success.
C15_OtherEvent ==
    (/\ hpc # "idle"
     /\ ~parsed.err
     /\ parsed.type # "PushEvent"
     /\ parsed.type # "PullRequestEvent")
    => /\ \A i \in 1..Len(triggers) : triggers[i] = 0
       /\ (hpc = "done" /\ ~calls.listFailed) => (hret = "nil" /\ idx = nsubs)

\* An issues event for a repository was delivered to two subscriptions; the
\* last one's GitHub channel has the repository's clone URL as path and was
\* skipped at the event switch; the handler returned success
C15_Witness ==
    /\ hpc = "done" /\ hret = "nil"
    /\ parsed.type = "IssuesEvent"
    /\ parsed.repo.CloneURL = "git://c/x.git"
    /\ cur.chobj.PathName = "git://c/x.git"
    /\ cur.skip = "event-type"
    /\ triggers = <<0, 0>>

\* C16: a subscription is triggered only if its channel reference splits at
\* the slashes into exactly two segments, the Channel was fetched without
\* error, and the channel's type equals "GitHub" ignoring case.
C16_Channel ==
    (Evaluated /\ Triggered)
    => /\ Len(Split(cur.Channel, "/")) = 2
       /\ cur.chanGet
       /\ ~cur.chobj.err
       /\ ToLower(cur.chobj.Type) = "github"

\* A subscription whose channel is of type "github" in lower case was
\* triggered
C16_Witness ==
    /\ Evaluated
    /\ Triggered
    /\ cur.Channel = "n/ch"
    /\ cur.chobj.Type = "github"

====
